---- MODULE Spec2Model ----
(***************************************************************************)
(* A model of the <Mutation /> component of src/src/Mutation.tsx.          *)
(*                                                                         *)
(* The component wraps one remote operation.  runMutation issues a call    *)
(* and stamps it with mostRecentMutationId; when the call settles, the     *)
(* continuation compares its stamp with mostRecentMutationId and either    *)
(* writes the component state or only dispatches the callback.             *)
(*                                                                         *)
(* JavaScript runs the component on one thread: the constructor,           *)
(* componentWillReceiveProps, the synchronous part of runMutation (up to   *)
(* the await of client.mutate) and the continuation of one settled call    *)
(* are each one atomic step.  setState is applied at once (the calls come  *)
(* from promise continuations and lifecycle methods), and its callback     *)
(* runs right after the write.  The callbacks of the caller (onCompleted,  *)
(* onError) return normally.  The component has no componentWillUnmount    *)
(* and keeps no mounted flag: after the host has unmounted it, a call      *)
(* still in flight settles into the same continuation, and React ignores   *)
(* a setState on the unmounted component (it warns), update and callback   *)
(* alike.  The trigger is handed out by render only, so it is not invoked  *)
(* after the unmount.                                                      *)
(*                                                                         *)
(* An optional JavaScript value is modelled as a set: {} is undefined,     *)
(* {v} is the value v.                                                     *)
(***************************************************************************)
EXTENDS Naturals, Sequences, FiniteSets

VARIABLES
    phase,                  \* "unconstructed", "mounted", "unmounted" or "failed" (the constructor or a lifecycle method threw)
    fault,                  \* the message of the configuration error thrown, NoFault if none
    received,               \* the props and context of the last constructor or lifecycle call
    props,                  \* this.props
    client,                 \* this.client
    mostRecentMutationId,   \* this.mostRecentMutationId
    state,                  \* this.state
    calls,                  \* the calls issued by runMutation, in issue order
    requested,              \* the requests the last step handed to client.mutate
    invoked,                \* the callback invocations the last step made
    history                 \* what has happened so far, for the properties to speak of

vars == <<phase, fault, received, props, client, mostRecentMutationId, state, calls,
          requested, invoked, history>>

-----------------------------------------------------------------------------
(* Bounds *)

\* The number of times runMutation may be invoked.
MaxCalls == 3

\* The number of times runMutation may be invoked where eventual behaviour is checked.
MaxLiveCalls == 2

-----------------------------------------------------------------------------
(* Values *)

Undefined == {}

Some(v) == {v}

\* JavaScript truthiness of an optional boolean.
Truthy(v) == v = Some(TRUE)

NoCallback == "undefined"

NoClient == "undefined"

NoFault == "none"

\* The clients a context can carry.
Clients == {"clientA", "clientB"}

\* The payloads the remote client resolves with, and the error it rejects with.
Payloads == {"X"}

ApolloErrors == {"E"}

\* parser(document).type: the kind of operation a document holds.
parser(document) ==
    [type |-> CASE document \in {"addTodo", "removeTodo"} -> "Mutation"
                [] document = "getTodos" -> "Query"
                [] OTHER -> "Subscription"]

\* MutationProps (children is the render function, see render).
MutationProps(mutation, tag, onCompleted, onError) ==
    [mutation           |-> mutation,
     variables          |-> "variables" \o tag,
     optimisticResponse |-> "optimisticResponse" \o tag,
     refetchQueries     |-> "refetchQueries" \o tag,
     update             |-> "update" \o tag,
     onCompleted        |-> onCompleted,
     onError            |-> onError]

\* The configurations a caller hands to the component.
Configurations ==
    { MutationProps("addTodo", "1", "onCompleted1", "onError1"),
      MutationProps("removeTodo", "2", "onCompleted2", "onError2"),
      MutationProps("addTodo", "3", NoCallback, NoCallback),
      MutationProps("getTodos", "4", "onCompleted1", "onError1"),
      MutationProps("onTodoAdded", "5", "onCompleted1", "onError1") }

\* The contexts the host hands to the constructor; the provider may be missing.
Contexts == { [client |-> c] : c \in Clients \cup {NoClient} }

\* The contexts a mounted component receives: the provider always carries a client.
NextContexts == { [client |-> c] : c \in Clients }

-----------------------------------------------------------------------------
(* MutationState and setState *)

StateKeys == {"notCalled", "loading", "data", "error"}

\* A state object read through the MutationState interface: a key the object
\* does not hold reads as undefined.
MutationState(obj) ==
    [k \in StateKeys |-> IF k \in DOMAIN obj THEN obj[k] ELSE Undefined]

initialState == [notCalled |-> Some(TRUE)]

\* React's setState: the keys of the partial state are merged into the state.
setState(s, partial) ==
    [k \in StateKeys |-> IF k \in DOMAIN partial THEN partial[k] ELSE s[k]]

\* A change of client that leaves the state alone.
resetStateSkipped(s) == s

\* The state after componentWillReceiveProps' setState(initialState).
resetState(s) == setState(s, initialState)

\* shallowEqual of two props objects: the fields are atoms.
shallowEqual(a, b) == a = b

-----------------------------------------------------------------------------
(* Validation *)

\* invariant(condition, message): the message thrown, NoFault when the condition holds.
invariant(condition, message) == IF condition THEN NoFault ELSE message

\* A check that takes every document that is not a query for a mutation.
verifyDocumentIsNotQuery(mutation) ==
    LET operation == parser(mutation) IN
    invariant(operation.type # "Query",
              "The <Mutation /> component requires a graphql mutation, but got a query.")

verifyDocumentIsMutation(mutation) ==
    LET operation == parser(mutation) IN
    invariant(operation.type = "Mutation",
              "The <Mutation /> component requires a graphql mutation, but got a "
                \o (IF operation.type = "Query" THEN "query" ELSE "subscription") \o ".")

verifyContext(ctx) ==
    invariant(ctx.client # NoClient,
              "Could not find client in the context of Mutation. Wrap the root component in an <ApolloProvider>")

-----------------------------------------------------------------------------
(* render *)

\* The result render hands to children, as an optional value.
render(s) ==
    IF Truthy(s.notCalled)
    THEN Undefined
    ELSE Some([loading |-> s.loading, data |-> s.data, error |-> s.error])

-----------------------------------------------------------------------------
(* The handlers of runMutation *)

\* A start that writes the loading state whether or not it is loading already.
onStartMutationAlways(s) ==
    setState(s, [loading   |-> Some(TRUE),
                 error     |-> Undefined,
                 data      |-> Undefined,
                 notCalled |-> Some(FALSE)])

\* A start that sets loading and keeps the last outcome.
onStartMutationKeepsOutcome(s) ==
    IF ~Truthy(s.loading)
    THEN setState(s, [loading |-> Some(TRUE), notCalled |-> Some(FALSE)])
    ELSE s

\* The state after onStartMutation.
onStartMutation(s) ==
    IF ~Truthy(s.loading)
    THEN setState(s, [loading   |-> Some(TRUE),
                      error     |-> Undefined,
                      data      |-> Undefined,
                      notCalled |-> Some(FALSE)])
    ELSE s

\* One invocation of a caller's callback, with the state it finds.
Invocation(callback, handler, arg, seen) ==
    [callback |-> callback, handler |-> handler, arg |-> arg, seen |-> seen]

\* A completion that writes the state whatever the token.
onCompletedMutationUnguarded(s, p, mostRecent, response, mutationId) ==
    LET written == setState(s, [loading |-> Some(FALSE), data |-> Some(response.data)])
    IN  [state   |-> written, viaSetState |-> TRUE,
         invoked |-> IF p.onCompleted # NoCallback
                     THEN <<Invocation("onCompleted", p.onCompleted, response.data, written)>>
                     ELSE <<>>]

\* A completion that drops the callback of a stale call together with its state write.
onCompletedMutationDropsStale(s, p, mostRecent, response, mutationId) ==
    LET written == setState(s, [loading |-> Some(FALSE), data |-> Some(response.data)])
    IN  IF mostRecent = mutationId
        THEN [state   |-> written, viaSetState |-> TRUE,
              invoked |-> IF p.onCompleted # NoCallback
                          THEN <<Invocation("onCompleted", p.onCompleted, response.data, written)>>
                          ELSE <<>>]
        ELSE [state |-> s, viaSetState |-> FALSE, invoked |-> <<>>]

\* A completion that calls the callback before it writes the state.
onCompletedMutationCallsFirst(s, p, mostRecent, response, mutationId) ==
    LET written == setState(s, [loading |-> Some(FALSE), data |-> Some(response.data)])
        invocations == IF p.onCompleted # NoCallback
                       THEN <<Invocation("onCompleted", p.onCompleted, response.data, s)>>
                       ELSE <<>>
    IN  IF mostRecent = mutationId
        THEN [state |-> written, viaSetState |-> TRUE, invoked |-> invocations]
        ELSE [state |-> s, viaSetState |-> FALSE, invoked |-> invocations]

\* A completion that assigns this.state for the most recent call and calls the
\* callback itself, without setState.
onCompletedMutationAssignsState(s, p, mostRecent, response, mutationId) ==
    LET written == setState(s, [loading |-> Some(FALSE), data |-> Some(response.data)])
        after == IF mostRecent = mutationId THEN written ELSE s
    IN  [state   |-> after, viaSetState |-> FALSE,
         invoked |-> IF p.onCompleted # NoCallback
                     THEN <<Invocation("onCompleted", p.onCompleted, response.data, after)>>
                     ELSE <<>>]

\* onCompletedMutation(response, mutationId), run with state s, props p and
\* counter mostRecent: the state it leaves and the callbacks it invokes;
\* viaSetState tells that the write and the callback were handed to setState.
onCompletedMutation(s, p, mostRecent, response, mutationId) ==
    LET onCompleted == p.onCompleted
        data == response.data
        written == setState(s, [loading |-> Some(FALSE), data |-> Some(data)])
        callOncomplete(seen) ==
            IF onCompleted # NoCallback
            THEN <<Invocation("onCompleted", onCompleted, data, seen)>>
            ELSE <<>>
    IN  IF mostRecent = mutationId
        THEN [state |-> written, viaSetState |-> TRUE, invoked |-> callOncomplete(written)]
        ELSE [state |-> s, viaSetState |-> FALSE, invoked |-> callOncomplete(s)]

\* An error handler that writes the state whatever the token.
onMutationErrorUnguarded(s, p, mostRecent, error, mutationId) ==
    LET written == setState(s, [loading |-> Some(FALSE), error |-> Some(error)])
    IN  [state   |-> written, viaSetState |-> TRUE,
         invoked |-> IF p.onError # NoCallback
                     THEN <<Invocation("onError", p.onError, error, written)>>
                     ELSE <<>>]

\* An error handler that stores the error and leaves loading set.
onMutationErrorStillLoading(s, p, mostRecent, error, mutationId) ==
    LET written == setState(s, [error |-> Some(error)])
        invocations == IF p.onError # NoCallback
                       THEN <<Invocation("onError", p.onError, error, written)>>
                       ELSE <<>>
    IN  IF mostRecent = mutationId
        THEN [state |-> written, viaSetState |-> TRUE, invoked |-> invocations]
        ELSE [state |-> s, viaSetState |-> FALSE, invoked |-> invocations]

\* onMutationError(error, mutationId), likewise.
onMutationError(s, p, mostRecent, error, mutationId) ==
    LET onError == p.onError
        apolloError == error
        written == setState(s, [loading |-> Some(FALSE), error |-> Some(apolloError)])
        callOnError(seen) ==
            IF onError # NoCallback
            THEN <<Invocation("onError", onError, apolloError, seen)>>
            ELSE <<>>
    IN  IF mostRecent = mutationId
        THEN [state |-> written, viaSetState |-> TRUE, invoked |-> callOnError(written)]
        ELSE [state |-> s, viaSetState |-> FALSE, invoked |-> callOnError(s)]

\* What a handler's setState comes to for a component in phase ph: React applies
\* the update and runs its callback for a mounted component and ignores both for
\* an unmounted one; what the handler did without setState happens either way.
applyUpdate(ph, s, after) ==
    IF after.viaSetState /\ ph # "mounted"
    THEN [state |-> s, invoked |-> <<>>]
    ELSE [state |-> after.state, invoked |-> after.invoked]

\* Options that leave out the update function.
mutateWithoutUpdate(c, p) ==
    [client             |-> c,
     mutation           |-> p.mutation,
     variables          |-> p.variables,
     optimisticResponse |-> p.optimisticResponse,
     refetchQueries     |-> p.refetchQueries,
     update             |-> "undefined"]

\* The options mutate hands to client.mutate, with the client they go to.
mutate(c, p) ==
    [client             |-> c,
     mutation           |-> p.mutation,
     variables          |-> p.variables,
     optimisticResponse |-> p.optimisticResponse,
     refetchQueries     |-> p.refetchQueries,
     update             |-> p.update]

\* A counter that is read and not increased.
nextMutationIdStuck(mostRecent) == mostRecent

\* The counter after runMutation's increment.
nextMutationId(mostRecent) == mostRecent + 1

-----------------------------------------------------------------------------------------------------------------------------------------------------
(* Calls *)

Tokens == 1..Len(calls)

Pending(i) == calls[i].status = "pending"

Settled(i) == calls[i].status # "pending"

SettledTokens == {i \in Tokens : Settled(i)}

\* A call issued by runMutation: mutationId is the constant of its closure, status
\* and result are the promise of client.mutate, and onCompleted and onError count
\* the invocations of the two callbacks made for the call.
Call(mutationId) ==
    [mutationId  |-> mutationId,
     status      |-> "pending",
     result      |-> Undefined,
     onCompleted |-> 0,
     onError     |-> 0]

\* The number of invocations of a callback in a list of invocations.
Count(invocations, callback) ==
    Cardinality({k \in 1..Len(invocations) : invocations[k].callback = callback})

\* The calls after call i settled with a result, its continuation having made
\* the given invocations.
SettleCall(i, status, result, invocations) ==
    [calls EXCEPT ![i].status = status,
                  ![i].result = Some(result),
                  ![i].onCompleted = @ + Count(invocations, "onCompleted"),
                  ![i].onError = @ + Count(invocations, "onError")]

\* The history: issuedFirst, every call so far was issued before any call settled;
\* outOfOrder, some call settled after a call issued later had settled;
\* clientChanges, the client has changed; issuedBeforeChange, the number of calls
\* that were issued before the last change of the client; replaced, the props
\* have been replaced by different ones since the most recent call was issued.
NoHistory ==
    [issuedFirst |-> TRUE, outOfOrder |-> FALSE, clientChanges |-> FALSE,
     issuedBeforeChange |-> 0, replaced |-> FALSE]

-----------------------------------------------------------------------------
(* Initial state and actions *)

\* The host is about to construct the component with some props and context.
Init ==
    /\ phase = "unconstructed"
    /\ fault = NoFault
    /\ received \in [props : Configurations, context : Contexts]
    /\ props = received.props
    /\ client = NoClient
    /\ mostRecentMutationId = 0
    /\ state = MutationState([notCalled |-> Undefined])
    /\ calls = <<>>
    /\ requested = <<>>
    /\ invoked = <<>>
    /\ history = NoHistory

\* constructor(props, context); super(props, context) has stored the props.
Constructor ==
    /\ phase = "unconstructed"
    /\ LET context == received.context IN
       IF verifyContext(context) # NoFault
       THEN /\ phase' = "failed"
            /\ fault' = verifyContext(context)
            /\ UNCHANGED <<client, mostRecentMutationId, state>>
       ELSE IF verifyDocumentIsMutation(props.mutation) # NoFault
       THEN /\ phase' = "failed"
            /\ fault' = verifyDocumentIsMutation(props.mutation)
            /\ client' = context.client
            /\ UNCHANGED <<mostRecentMutationId, state>>
       ELSE /\ phase' = "mounted"
            /\ client' = context.client
            /\ mostRecentMutationId' = 0
            /\ state' = MutationState(initialState)
            /\ UNCHANGED fault
    /\ requested' = <<>>
    /\ invoked' = <<>>
    /\ UNCHANGED <<received, props, calls, history>>

\* A componentWillReceiveProps that takes the new client before it checks the document.
componentWillReceivePropsClientFirst(nextProps, nextContext) ==
    /\ phase = "mounted"
    /\ IF shallowEqual(props, nextProps) /\ client = nextContext.client
       THEN UNCHANGED <<phase, fault, props, client, state, history>>
       ELSE /\ IF client # nextContext.client
               THEN /\ client' = nextContext.client
                    /\ state' = resetState(state)
                    /\ history' = [history EXCEPT !.clientChanges = TRUE,
                                                  !.issuedBeforeChange = Len(calls),
                                                  !.replaced = @ \/ (calls # <<>> /\ nextProps # props)]
               ELSE /\ history' = [history EXCEPT !.replaced = @ \/ calls # <<>>]
                    /\ UNCHANGED <<client, state>>
            /\ IF verifyDocumentIsMutation(nextProps.mutation) # NoFault
               THEN /\ phase' = "failed"
                    /\ fault' = verifyDocumentIsMutation(nextProps.mutation)
                    /\ UNCHANGED props
               ELSE /\ props' = nextProps
                    /\ UNCHANGED <<phase, fault>>
    /\ received' = [props |-> nextProps, context |-> nextContext]
    /\ requested' = <<>>
    /\ invoked' = <<>>
    /\ UNCHANGED <<mostRecentMutationId, calls>>

\* A componentWillReceiveProps that resets the state on every change of props or client.
componentWillReceivePropsResetsAlways(nextProps, nextContext) ==
    /\ phase = "mounted"
    /\ IF shallowEqual(props, nextProps) /\ client = nextContext.client
       THEN UNCHANGED <<phase, fault, props, client, state, history>>
       ELSE IF verifyDocumentIsMutation(nextProps.mutation) # NoFault
       THEN /\ phase' = "failed"
            /\ fault' = verifyDocumentIsMutation(nextProps.mutation)
            /\ UNCHANGED <<props, client, state, history>>
       ELSE /\ props' = nextProps
            /\ client' = nextContext.client
            /\ state' = resetState(state)
            /\ history' = [history EXCEPT
                             !.clientChanges = @ \/ client # nextContext.client,
                             !.issuedBeforeChange =
                                 IF client # nextContext.client THEN Len(calls) ELSE @,
                             !.replaced = @ \/ (calls # <<>> /\ nextProps # props)]
            /\ UNCHANGED <<phase, fault>>
    /\ received' = [props |-> nextProps, context |-> nextContext]
    /\ requested' = <<>>
    /\ invoked' = <<>>
    /\ UNCHANGED <<mostRecentMutationId, calls>>

\* componentWillReceiveProps(nextProps, nextContext); React then stores nextProps
\* and nextContext in the component.
componentWillReceiveProps(nextProps, nextContext) ==
    /\ phase = "mounted"
    /\ IF shallowEqual(props, nextProps) /\ client = nextContext.client
       THEN UNCHANGED <<phase, fault, props, client, state, history>>
       ELSE IF verifyDocumentIsMutation(nextProps.mutation) # NoFault
       THEN /\ phase' = "failed"
            /\ fault' = verifyDocumentIsMutation(nextProps.mutation)
            /\ UNCHANGED <<props, client, state, history>>
       ELSE /\ props' = nextProps
            /\ IF client # nextContext.client
               THEN /\ client' = nextContext.client
                    /\ state' = resetState(state)
                    /\ history' = [history EXCEPT !.clientChanges = TRUE,
                                                  !.issuedBeforeChange = Len(calls),
                                                  !.replaced = @ \/ (calls # <<>> /\ nextProps # props)]
               ELSE /\ history' = [history EXCEPT !.replaced = @ \/ calls # <<>>]
                    /\ UNCHANGED <<client, state>>
            /\ UNCHANGED <<phase, fault>>
    /\ received' = [props |-> nextProps, context |-> nextContext]
    /\ requested' = <<>>
    /\ invoked' = <<>>
    /\ UNCHANGED <<mostRecentMutationId, calls>>

Reconfigure ==
    \E nextProps \in Configurations, nextContext \in NextContexts :
        componentWillReceiveProps(nextProps, nextContext)

\* runMutation, up to the await of client.mutate.
runMutation ==
    /\ phase = "mounted"
    /\ Len(calls) < MaxCalls
    /\ state' = onStartMutation(state)
    /\ mostRecentMutationId' = nextMutationId(mostRecentMutationId)
    /\ requested' = <<mutate(client, props)>>
    /\ calls' = Append(calls, Call(mostRecentMutationId'))
    /\ invoked' = <<>>
    /\ history' = [history EXCEPT !.issuedFirst = @ /\ SettledTokens = {},
                                  !.replaced = FALSE]
    /\ UNCHANGED <<phase, fault, received, props, client>>

\* client.mutate resolves for call i: runMutation resumes in its try block.
Resolve(i, payload) ==
    /\ phase \in {"mounted", "unmounted"}
    /\ Pending(i)
    /\ LET mutationId == calls[i].mutationId
           response == [data |-> [call |-> mutationId, val |-> payload]]
           after == applyUpdate(phase, state,
                        onCompletedMutation(state, props, mostRecentMutationId, response, mutationId))
       IN  /\ state' = after.state
           /\ invoked' = after.invoked
           /\ calls' = SettleCall(i, "resolved", response.data, after.invoked)
    /\ requested' = <<>>
    /\ history' = [history EXCEPT !.outOfOrder = @ \/ \E j \in SettledTokens : j > i]
    /\ UNCHANGED <<phase, fault, received, props, client, mostRecentMutationId>>

\* client.mutate rejects for call i: runMutation resumes in its catch block.
Reject(i, e) ==
    /\ phase \in {"mounted", "unmounted"}
    /\ Pending(i)
    /\ LET mutationId == calls[i].mutationId
           error == [call |-> mutationId, val |-> e]
           after == applyUpdate(phase, state,
                        onMutationError(state, props, mostRecentMutationId, error, mutationId))
       IN  /\ state' = after.state
           /\ invoked' = after.invoked
           /\ calls' = SettleCall(i, "rejected", error, after.invoked)
    /\ requested' = <<>>
    /\ history' = [history EXCEPT !.outOfOrder = @ \/ \E j \in SettledTokens : j > i]
    /\ UNCHANGED <<phase, fault, received, props, client, mostRecentMutationId>>

\* The host unmounts the component; the calls in flight stay in flight.
Unmount ==
    /\ phase = "mounted"
    /\ phase' = "unmounted"
    /\ requested' = <<>>
    /\ invoked' = <<>>
    /\ UNCHANGED <<fault, received, props, client, mostRecentMutationId, state, calls, history>>

Settle ==
    \E i \in Tokens :
        \/ \E payload \in Payloads : Resolve(i, payload)
        \/ \E e \in ApolloErrors : Reject(i, e)

Next ==
    \/ Constructor
    \/ Reconfigure
    \/ runMutation
    \/ Settle
    \/ Unmount

Spec == Init /\ [][Next]_vars

\* The component with at most MaxLiveCalls triggers.
LiveNext ==
    \/ Constructor
    \/ Reconfigure
    \/ (Len(calls) < MaxLiveCalls /\ runMutation)
    \/ Settle
    \/ Unmount

\* The remote client settles every call it was handed, and the event loop runs
\* the continuation of a settled call.
FairSpec == Init /\ [][LiveNext]_vars /\ WF_vars(Settle)

-----------------------------------------------------------------------------
(* What the properties speak of *)

Mounted == phase = "mounted"

\* The call with the highest token among a non-empty set of calls.
Highest(S) == CHOOSE i \in S : \A j \in S : calls[j].mutationId <= calls[i].mutationId

\* The outcome of a settled call as a result handed to the renderer.
Outcome(i) ==
    [loading |-> Some(FALSE),
     data    |-> IF calls[i].status = "resolved" THEN calls[i].result ELSE Undefined,
     error   |-> IF calls[i].status = "rejected" THEN calls[i].result ELSE Undefined]

\* The loading, data and error fields of the stored state.
Fields(s) == [loading |-> s.loading, data |-> s.data, error |-> s.error]

LoadingResult == [loading |-> Some(TRUE), data |-> Undefined, error |-> Undefined]

\* Call i settles in this step.
Settles(i) == calls[i].status = "pending" /\ calls'[i].status # "pending"

\* The callback of the current props that matches the way call i settles in this step.
MatchingHandler(i) ==
    IF calls'[i].status = "resolved" THEN props.onCompleted ELSE props.onError

MatchingCallback(i) ==
    IF calls'[i].status = "resolved" THEN "onCompleted" ELSE "onError"

\* This step invokes the matching callback once, with the result of call i, and nothing else.
InvokesMatching(i) ==
    /\ Len(invoked') = 1
    /\ invoked'[1].callback = MatchingCallback(i)
    /\ invoked'[1].handler = MatchingHandler(i)
    /\ Some(invoked'[1].arg) = calls'[i].result

-----------------------------------------------------------------------------
(* C1 *)

\* C1: when N >= 1 calls were all issued before any of them settled and all N
\* have settled, in whatever order and each with success or failure, the state
\* holds the outcome of the call with the highest token (its data or its error,
\* loading false), and that is the result the renderer receives (when the
\* client has changed meanwhile the renderer may receive no result, see C5).
C1_HighestTokenWins ==
    (/\ Mounted
     /\ Tokens # {}
     /\ SettledTokens = Tokens
     /\ history.issuedFirst)
    => /\ Fields(state) = Outcome(Highest(Tokens))
       /\ ~history.clientChanges => render(state) = Some(Outcome(Highest(Tokens)))

\* Three calls issued before any settled; the highest token, a failure, settled
\* before a lower one, a success.
C1_Witness ==
    /\ Mounted
    /\ Len(calls) >= 3
    /\ SettledTokens = Tokens
    /\ history.issuedFirst
    /\ history.outOfOrder
    /\ ~history.clientChanges
    /\ calls[Len(calls)].status = "rejected"
    /\ calls[1].status = "resolved"

-----------------------------------------------------------------------------
(* C2 *)

\* C2 as stated: the settlement of a call whose token differs from the counter
\* leaves every field of the state unchanged and invokes the matching callback
\* with the call's own result.
C2_StaleSettlementInvokes ==
    [][\A i \in Tokens :
          (Settles(i) /\ calls[i].mutationId # mostRecentMutationId)
          => (state' = state /\ InvokesMatching(i))]_vars

\* C2 amended: the settlement of a call whose token differs from the counter
\* leaves every field of the state unchanged; the matching callback of the
\* props held at that moment is invoked with the call's own result when the
\* props have one, and nothing is invoked when they have none.
C2_StaleSettlement ==
    [][\A i \in Tokens :
          (Settles(i) /\ calls[i].mutationId # mostRecentMutationId)
          => /\ state' = state
             /\ IF MatchingHandler(i) # NoCallback
                THEN InvokesMatching(i)
                ELSE invoked' = <<>>]_vars

\* A then B were triggered and A resolved: the state is still loading, and A's
\* completion callback has just run with A's data.
C2_Witness ==
    /\ Mounted
    /\ Len(calls) = 2
    /\ calls[1].status = "resolved"
    /\ calls[2].status = "pending"
    /\ render(state) = Some(LoadingResult)
    /\ Len(invoked) = 1
    /\ invoked[1].callback = "onCompleted"
    /\ Some(invoked[1].arg) = calls[1].result

-----------------------------------------------------------------------------
(* C3 *)

-----------------------------------------------------------------------------
(* C4 *)

\* C4: whenever the state shows a success or a failure, it shows the outcome of
\* the call with the highest token among the calls settled so far.
C4_HighestSettledShown ==
    (Mounted /\ (state.data # Undefined \/ state.error # Undefined))
    => /\ SettledTokens # {}
       /\ Fields(state) = Outcome(Highest(SettledTokens))

\* A call settled after a call with a higher token had settled, and the
\* renderer sees the outcome of the higher one.
C4_Witness ==
    /\ Mounted
    /\ history.outOfOrder
    /\ SettledTokens = Tokens
    /\ render(state) = Some(Outcome(Len(calls)))

-----------------------------------------------------------------------------
(* C5 *)

\* C5: before the first trigger the renderer receives no result; while the most
\* recently issued call is outstanding (and the client has not changed since it
\* was issued) the renderer receives a result with loading = true.
C5_LoadingWhileOutstanding ==
    Mounted =>
        /\ Tokens = {} => render(state) = Undefined
        /\ (/\ Tokens # {}
            /\ Pending(Len(calls))
            /\ history.issuedBeforeChange < Len(calls))
           => \E r \in render(state) : r.loading = Some(TRUE)

-----------------------------------------------------------------------------
(* C6 *)

\* C6: a reconfiguration with a different client resets the state to the
\* initial not-called state, from any state: the renderer receives no result.
C6_ClientChangeResets ==
    [][(Mounted /\ client' # client)
       => (state' = MutationState(initialState) /\ render(state') = Undefined)]_vars

-----------------------------------------------------------------------------
(* C7 *)

\* C7: the renderer never receives the data or the error of a call that was
\* issued before a change of the client.
C7_AbandonedNeverShown ==
    Mounted =>
        \A i \in Tokens :
            (i <= history.issuedBeforeChange /\ Settled(i))
            => \A r \in render(state) : r.data # calls[i].result /\ r.error # calls[i].result

\* A call issued before the change of client settled after it as the most recent
\* call: the state holds its data, the renderer receives no result.
C7_Witness ==
    /\ Mounted
    /\ history.issuedBeforeChange >= 1
    /\ calls[1].status = "resolved"
    /\ state.data = calls[1].result
    /\ render(state) = Undefined

-----------------------------------------------------------------------------
(* C8 *)

\* C8: the settlement, in a mounted component, of the call whose token equals the counter sets loading
\* to false with the call's data and no error if it succeeded, with the call's
\* error and no data if it failed; no fault is raised; and the data or error of
\* the state changes to a settled outcome in no other step.
C8_CurrentSettlementWrites ==
    [][/\ \A i \in Tokens :
            (Mounted /\ Settles(i) /\ calls[i].mutationId = mostRecentMutationId)
            => (Fields(state') = Outcome(i)' /\ phase' = phase /\ fault' = NoFault)
       /\ (state'.loading = Some(FALSE)
           /\ (state'.data # state.data \/ state'.error # state.error))
          => \E i \in Tokens : Settles(i) /\ calls[i].mutationId = mostRecentMutationId]_vars

\* The most recent call failed after an earlier success: the state is Failed and
\* the error callback has just run.
C8_Witness ==
    /\ Mounted
    /\ Len(calls) >= 2
    /\ calls[1].status = "resolved"
    /\ calls[Len(calls)].status = "rejected"
    /\ Fields(state) = Outcome(Len(calls))
    /\ Len(invoked) = 1
    /\ invoked[1].callback = "onError"

-----------------------------------------------------------------------------
(* C9 *)

\* C9: the renderer receives no result, or loading with no data and no error, or
\* not loading with data and no error, or not loading with an error and no data.
C9_ResultWellFormed ==
    Mounted =>
        \A r \in render(state) :
            \/ r.loading = Some(TRUE) /\ r.data = Undefined /\ r.error = Undefined
            \/ r.loading = Some(FALSE) /\ r.data # Undefined /\ r.error = Undefined
            \/ r.loading = Some(FALSE) /\ r.data = Undefined /\ r.error # Undefined

\* The renderer receives a success after an earlier failure and a change of client.
C9_Witness ==
    /\ Mounted
    /\ history.clientChanges
    /\ \E i \in Tokens : calls[i].status = "rejected"
    /\ \E r \in render(state) : r.loading = Some(FALSE) /\ r.data # Undefined

-----------------------------------------------------------------------------
(* C10 *)

\* The configuration error for a document of a kind.
KindError(kind) ==
    "The <Mutation /> component requires a graphql mutation, but got a "
      \o (IF kind = "Query" THEN "query" ELSE "subscription") \o "."

\* C10: a constructor call (with a client in the context) or a reconfiguration
\* that changes the props or the client, handed a document that is not a
\* mutation, fails with the configuration error naming the kind; the component
\* is never mounted, so never triggerable, with such a document.
C10_NonMutationRejected ==
    [][/\ (/\ calls' = calls
           /\ received'.context.client # NoClient
           /\ parser(received'.props.mutation).type # "Mutation"
           /\ \/ phase = "unconstructed"
              \/ received'.props # props
              \/ received'.context.client # client)
          => /\ phase' = "failed"
             /\ fault' = KindError(parser(received'.props.mutation).type)
       /\ phase = "failed" => phase' = "failed"
       /\ phase' = "mounted" => parser(props'.mutation).type = "Mutation"]_vars

\* A reconfiguration of a component with a call outstanding brought a
\* subscription and failed.
C10_Witness ==
    /\ phase = "failed"
    /\ calls # <<>>
    /\ received.props.mutation = "onTodoAdded"
    /\ fault = KindError("Subscription")

-----------------------------------------------------------------------------
(* C11 *)

\* C11: after the component has been unmounted, the settlement of a call that
\* was in flight, current or stale, changes no field of the state and raises no
\* fault.
C11_SettlementAfterUnmount ==
    [][\A i \in Tokens :
          (phase = "unmounted" /\ Settles(i))
          => /\ state' = state
             /\ fault' = fault
             /\ phase' = "unmounted"
             /\ mostRecentMutationId' = mostRecentMutationId]_vars

\* Unmounted with two calls in flight: the most recent one has settled (the
\* state still says loading) and a stale one has just settled and had its callback.
C11_Witness ==
    /\ phase = "unmounted"
    /\ Len(calls) >= 2
    /\ SettledTokens = Tokens
    /\ Truthy(state.loading)
    /\ Len(invoked) = 1

-----------------------------------------------------------------------------
(* C12 *)

\* C12: the counter is 0 after construction, a trigger increases it by exactly
\* 1 and stamps the new call with the new value, no other step changes it, and
\* the tokens of the calls are strictly increasing in issue order.
C12_CounterMonotonic ==
    [][/\ (phase = "unconstructed" /\ phase' = "mounted") => mostRecentMutationId' = 0
       /\ IF Len(calls') # Len(calls)
          THEN /\ Len(calls') = Len(calls) + 1
               /\ mostRecentMutationId' = mostRecentMutationId + 1
               /\ calls'[Len(calls')].mutationId = mostRecentMutationId'
          ELSE mostRecentMutationId' = mostRecentMutationId
       /\ \A i, j \in 1..Len(calls') :
            i < j => calls'[i].mutationId < calls'[j].mutationId]_vars

\* Three calls, with a change of client between two of them.
C12_Witness ==
    /\ Mounted
    /\ Len(calls) = 3
    /\ mostRecentMutationId = 3
    /\ history.issuedBeforeChange \in {1, 2}

-----------------------------------------------------------------------------
(* C13 *)

\* C13: a trigger while the state is loading issues exactly one remote call,
\* with a token no earlier call has, and leaves the state unchanged; every
\* trigger issues one call, so the calls issued are as many as the triggers.
C13_TriggerWhileLoading ==
    [][(mostRecentMutationId' # mostRecentMutationId)
       => /\ Len(calls') = Len(calls) + 1
          /\ Len(requested') = 1
          /\ Len(calls') = mostRecentMutationId'
          /\ \A i \in Tokens : calls[i].mutationId # calls'[Len(calls')].mutationId
          /\ Truthy(state.loading) => state' = state]_vars

\* A second call has been issued while the first is outstanding.
C13_Witness ==
    /\ Mounted
    /\ Len(calls) = 2
    /\ Pending(1)
    /\ Pending(2)
    /\ Len(requested) = 1
    /\ render(state) = Some(LoadingResult)

-----------------------------------------------------------------------------
(* C14 *)

\* C14: when the call that settles is the most recent one, the completion or
\* error callback runs after the state write: the state it finds is the state
\* the step leaves, with loading false and the call's data or error.
C14_CallbackAfterWrite ==
    [][\A i \in Tokens :
          (/\ Mounted
           /\ Settles(i)
           /\ calls[i].mutationId = mostRecentMutationId
           /\ invoked' # <<>>)
          => /\ Len(invoked') = 1
             /\ invoked'[1].seen = state'
             /\ Fields(invoked'[1].seen) = Outcome(i)']_vars

\* The most recent call has just resolved and its completion callback found the
\* state with loading false and the call's data.
C14_Witness ==
    /\ Mounted
    /\ Len(invoked) = 1
    /\ invoked[1].callback = "onCompleted"
    /\ Some(invoked[1].arg) = calls[Len(calls)].result
    /\ invoked[1].seen.loading = Some(FALSE)
    /\ invoked[1].seen.data = calls[Len(calls)].result

-----------------------------------------------------------------------------
(* C15 *)

\* C15: in a mounted component the stored loading flag is true exactly when
\* the call whose token equals the counter has been issued and has not settled;
\* data and error are never both set, and neither is set while loading is true.
C15_LoadingIffCurrentOutstanding ==
    Mounted =>
        /\ Truthy(state.loading)
             <=> \E i \in Tokens : calls[i].mutationId = mostRecentMutationId /\ Pending(i)
        /\ ~(state.data # Undefined /\ state.error # Undefined)
        /\ Truthy(state.loading) => (state.data = Undefined /\ state.error = Undefined)

\* After a change of client with a call outstanding and a later trigger: the
\* stored flag says loading, the most recent call is outstanding, an earlier one
\* has settled.
C15_Witness ==
    /\ Mounted
    /\ history.clientChanges
    /\ Truthy(state.loading)
    /\ Truthy(state.notCalled)
    /\ Len(calls) >= 2
    /\ Pending(Len(calls))
    /\ Settled(1)

-----------------------------------------------------------------------------
(* C16 *)

\* C16: triggers being finitely many and every call settling, a component that
\* stays mounted is eventually not loading, for good.
C16_EventuallyNotLoading ==
    <>[](Mounted => ~Truthy(state.loading))

\* All the calls have settled, the last of them a failure that followed a
\* success, and the component has left loading.
C16_Witness ==
    /\ Mounted
    /\ Len(calls) >= 2
    /\ SettledTokens = Tokens
    /\ calls[1].status = "resolved"
    /\ calls[Len(calls)].status = "rejected"
    /\ state.loading = Some(FALSE)

-----------------------------------------------------------------------------
(* C17 *)

\* C17: a reconfiguration whose document fails validation leaves the stored
\* client, the state, the counter and the props as they were, also when it
\* carries a different client.
C17_FailedReconfigurationChangesNothing ==
    [][(Mounted /\ phase' = "failed")
       => /\ client' = client
          /\ state' = state
          /\ mostRecentMutationId' = mostRecentMutationId
          /\ props' = props
          /\ calls' = calls]_vars

\* A reconfiguration with another client and a query failed while a call was
\* outstanding: the component still holds its client and its loading state.
C17_Witness ==
    /\ phase = "failed"
    /\ calls # <<>>
    /\ client # NoClient
    /\ received.context.client # client
    /\ received.props.mutation = "getTodos"
    /\ Truthy(state.loading)

-----------------------------------------------------------------------------
(* C18 *)

\* C18: a reconfiguration that keeps the client leaves the state and the
\* counter unchanged, and a most recent call that was outstanding when the
\* props were replaced still writes its outcome when it settles.
C18_SameClientReconfiguration ==
    [][/\ (Mounted /\ phase' = "mounted" /\ calls' = calls /\ client' = client)
          => (state' = state /\ mostRecentMutationId' = mostRecentMutationId)
       /\ \A i \in Tokens :
            (/\ Mounted
             /\ history.replaced
             /\ Settles(i)
             /\ calls[i].mutationId = mostRecentMutationId)
            => Fields(state') = Outcome(i)']_vars

\* The props were replaced, the client kept, while the most recent call was
\* outstanding; the call has settled and the renderer receives its outcome.
C18_Witness ==
    /\ Mounted
    /\ history.replaced
    /\ ~history.clientChanges
    /\ Tokens # {}
    /\ Settled(Len(calls))
    /\ render(state) = Some(Outcome(Len(calls)))

-----------------------------------------------------------------------------
(* C19 *)

\* C19: a trigger hands the remote call to the client held at that moment, with
\* the operation, variables, optimistic result, refetch list and merge callback
\* of the props held at that moment; a settlement invokes the matching callback
\* of the props held at the settlement, the new one if the props were replaced
\* since the trigger, and none if those props have none.
C19_RequestAndCallbackProps ==
    [][/\ (mostRecentMutationId' # mostRecentMutationId)
          => requested' = <<[client             |-> client,
                             mutation           |-> props.mutation,
                             variables          |-> props.variables,
                             optimisticResponse |-> props.optimisticResponse,
                             refetchQueries     |-> props.refetchQueries,
                             update             |-> props.update]>>
       /\ \A i \in Tokens :
            (Mounted /\ Settles(i))
            => IF MatchingHandler(i) = NoCallback
               THEN invoked' = <<>>
               ELSE /\ Len(invoked') = 1
                    /\ invoked'[1].callback = MatchingCallback(i)
                    /\ invoked'[1].handler = MatchingHandler(i)]_vars

\* The props were replaced while the most recent call was outstanding, and the
\* call has just resolved: the completion callback of the props now held ran.
C19_Witness ==
    /\ Mounted
    /\ history.replaced
    /\ Len(invoked) = 1
    /\ invoked[1].callback = "onCompleted"
    /\ invoked[1].handler = props.onCompleted
    /\ Some(invoked[1].arg) = calls[Len(calls)].result

====
